---- MODULE Spec2Model ----
(***************************************************************************)
(* A model of kornia/x/trainer.py: the construction of a Trainer (the      *)
(* callbacks whitelist) and the control flow of Trainer.fit and            *)
(* Trainer.fit_epoch, one action per statement.                            *)
(*                                                                         *)
(* Python objects are modelled as tuples and records:                      *)
(*   None                  <<>>                                            *)
(*   a TrainerState member <<"TrainerState", name>>                        *)
(*   a batch tensor        [id |-> index in the dataloader,                *)
(*                          n  |-> shape[0], ops |-> the user stages that  *)
(*                          transformed it, in order]                      *)
(* The model, the criterion, the optimizer, the scheduler and the          *)
(* accelerator are external objects: a call into them is recorded in the   *)
(* call trace and, for the criterion, yields a loss drawn from Losses.     *)
(* The accelerate library may be missing (Accelerator is None after lines  *)
(* 10-13): __init__ then raises ModuleNotFoundError at line 63.            *)
(* num_epochs is a natural number.  The                                    *)
(* training dataloader may have no length (a DataLoader over an iterable  *)
(* dataset): len() of it, called by the log line of 113-118, then raises  *)
(* TypeError, which leaves fit_epoch and fit.                              *)
(***************************************************************************)
EXTENDS Integers, Sequences, FiniteSets

\* ---------------------------------------------------------------- bounds
MaxEpochs == 2
MaxBatches == 2
MaxCallbacks == 2

\* line 113: the log line runs for every LogEvery-th batch.
LogEvery == 50

\* ---------------------------------------------------------------- values
None == <<>>

TrainerState_TERMINATE == <<"TrainerState", "TERMINATE">>

TrainerState_TRAINING == <<"TrainerState", "TRAINING">>

\* line 19-21
callbacks_whitelist ==
    {"preprocess", "augmentations", "evaluate", "fit", "checkpoint", "terminate"}

\* Attributes of a Trainer that are no stage: candidates for a rejected key.
OtherAttributes == {"backward", "fit_epoch", "model", "optimizer"}

AttributeNames == callbacks_whitelist \cup OtherAttributes

\* The loss values the criterion may yield.
Losses == {1, 2}

\* The batch sizes (shape[0]) the dataloader may yield.
BatchSizes == {1, 2}

\* The batch source the dataloader yields at position i (0-based).
Tensor(i, n) == [id |-> i, n |-> n, ops |-> <<>>]

\* ------------------------------------------------ the running-average meter
RECURSIVE GCD(_, _)
GCD(a, b) == IF b = 0 THEN a ELSE GCD(b, a % b)

\* sum / count as a fraction in lowest terms
Ratio(s, c) == <<s \div GCD(s, c), c \div GCD(s, c)>>

\* AverageMeter(): reset()
AverageMeter == [val |-> 0, avg |-> <<0, 1>>, sum |-> 0, count |-> 0]

\* AverageMeter.update(val, n)
AverageMeterUpdate(m, val, n) ==
    [val |-> val, sum |-> m.sum + val * n, count |-> m.count + n,
     avg |-> Ratio(m.sum + val * n, m.count + n)]

\* ------------------------------------------------ the default stages
\* line 143-144
evaluate == None

\* line 146-147
preprocess(x) == x

\* line 149-150
augmentations(x) == x

\* line 152-153
checkpoint(m, e, stats) == None

\* line 155-156
terminate(m, e, stats) == None

\* ------------------------------------------------ caller-supplied stages
\* A caller's preprocess: marks the batch.
user_preprocess(x) == [x EXCEPT !.ops = Append(@, "preprocess")]

\* A caller's augmentations: marks the batch and adds one sample to it.
user_augmentations(x) == [x EXCEPT !.ops = Append(@, "augmentations"), !.n = @ + 1]

\* A caller's evaluate: the k-th call returns the statistics of the k-th pass.
user_evaluate(k) == <<"valid_stats", k>>

\* What a caller's terminate may return.
UserTerminateReturns == {None, TrainerState_TRAINING, TrainerState_TERMINATE}

\* ---------------------------------------------------------------- state
VARIABLES
    pc,               \* the statement about to run
    Accelerator,      \* the module's Accelerator: the class, or None (line 10-13)
    callbacks,        \* __init__'s callbacks argument: the keys in dict order
    cb_i,             \* position of the loop of line 77
    config_num_epochs,\* config.num_epochs
    attrs,            \* per attribute name: "default" (the class's) or "user"
    num_epochs,       \* self.num_epochs
    train_dataloader, \* the batch sizes, in dataloader order
    loader_has_len,   \* whether len(train_dataloader) is defined
    epoch,            \* fit's loop variable (-1 before the first iteration)
    sample_id,        \* fit_epoch's loop variable (-1 before the first)
    source,           \* fit_epoch's locals
    img,
    loss,
    losses,           \* fit_epoch's AverageMeter (None outside fit_epoch)
    valid_stats,      \* fit's locals
    state,
    trace,            \* history: the calls made so far, in order
    epoch_hist        \* history: <<loss, weight>> of the batches of this epoch

vars == <<pc, callbacks, cb_i, config_num_epochs, attrs, num_epochs,
          train_dataloader, loader_has_len, Accelerator, epoch, sample_id, source,
          img, loss, losses,
          valid_stats, state, trace, epoch_hist>>

\* One call: the stage, the implementation bound to it, the epoch and batch it
\* was made in, what it received and what it returned.
Ev(stage, impl, e, s, arg, ret) ==
    [stage |-> stage, impl |-> impl, epoch |-> e, sample_id |-> s,
     arg |-> arg, ret |-> ret]

RECURSIVE SeqsUpTo(_, _)
SeqsUpTo(S, n) ==
    IF n = 0 THEN {<<>>}
    ELSE LET shorter == SeqsUpTo(S, n - 1)
         IN shorter \cup {Append(q, x) : q \in {r \in shorter : Len(r) = n - 1}, x \in S}

Distinct(q) == \A i, j \in 1..Len(q) : i # j => q[i] # q[j]

\* The callbacks dictionaries: up to MaxCallbacks distinct keys, in any order.
CallbackDicts == {q \in SeqsUpTo(AttributeNames, MaxCallbacks) : Distinct(q)}

Dataloaders == SeqsUpTo(BatchSizes, MaxBatches)

Init ==
    /\ pc = "init"
    /\ Accelerator \in {"None", "class"}
    /\ callbacks \in CallbackDicts
    /\ cb_i = 1
    /\ config_num_epochs \in 0..MaxEpochs
    /\ attrs = [a \in AttributeNames |-> "default"]
    /\ num_epochs = 0
    /\ train_dataloader \in Dataloaders
    /\ loader_has_len \in BOOLEAN
    /\ epoch = -1
    /\ sample_id = -1
    /\ source = None
    /\ img = None
    /\ loss = 0
    /\ losses = None
    /\ valid_stats = None
    /\ state = None
    /\ trace = <<>>
    /\ epoch_hist = <<>>

Record(e) == trace' = Append(trace, e)

\* The frames a statement leaves alone: what __init__ set up, the locals of fit,
\* the locals of fit_epoch.
UnchangedInit == UNCHANGED <<callbacks, cb_i, config_num_epochs, attrs, num_epochs,
                             train_dataloader, loader_has_len, Accelerator>>

UnchangedFit == UNCHANGED <<epoch, valid_stats, state>>

UnchangedBatch == UNCHANGED <<sample_id, source, img, loss, losses, epoch_hist>>

\* ------------------------------------------------ Trainer.__init__
\* line 62-64: the accelerate library is not installed.
RaiseModuleNotFound ==
    /\ pc = "init"
    /\ Accelerator = "None"
    /\ pc' = "ModuleNotFoundError"
    /\ UNCHANGED trace
    /\ UnchangedInit /\ UnchangedFit /\ UnchangedBatch

\* line 62, 65-74: the accelerator and the data related objects are set up.
InitSetup ==
    /\ pc = "init"
    /\ Accelerator # "None"
    /\ pc' = "init_callbacks"
    /\ UNCHANGED trace
    /\ UnchangedInit /\ UnchangedFit /\ UnchangedBatch

\* line 77-79: the next key is not whitelisted.
RaiseNotSupported ==
    /\ pc = "init_callbacks"
    /\ cb_i <= Len(callbacks)
    /\ callbacks[cb_i] \notin callbacks_whitelist
    /\ pc' = "ValueError"
    /\ UNCHANGED <<callbacks, cb_i, config_num_epochs, attrs, num_epochs,
                   train_dataloader, loader_has_len, Accelerator,
                   trace>>
    /\ UnchangedFit /\ UnchangedBatch

\* The loop body of line 77-80 without the test of line 78.
SetAttr_NoWhitelistTest ==
    /\ pc = "init_callbacks"
    /\ cb_i <= Len(callbacks)
    /\ attrs' = [attrs EXCEPT ![callbacks[cb_i]] = "user"]
    /\ cb_i' = cb_i + 1
    /\ UNCHANGED <<pc, callbacks, config_num_epochs, num_epochs, train_dataloader,
                   loader_has_len, Accelerator, trace>>
    /\ UnchangedFit /\ UnchangedBatch

\* line 77-80: the next key is whitelisted and bound on the instance.
SetAttr ==
    /\ pc = "init_callbacks"
    /\ cb_i <= Len(callbacks)
    /\ callbacks[cb_i] \in callbacks_whitelist
    /\ attrs' = [attrs EXCEPT ![callbacks[cb_i]] = "user"]
    /\ cb_i' = cb_i + 1
    /\ UNCHANGED <<pc, callbacks, config_num_epochs, num_epochs, train_dataloader,
                   loader_has_len, Accelerator, trace>>
    /\ UnchangedFit /\ UnchangedBatch

\* line 82-85: the loop is over; the hyper-parameters are read.
InitHyperParams ==
    /\ pc = "init_callbacks"
    /\ cb_i > Len(callbacks)
    /\ num_epochs' = config_num_epochs
    /\ pc' = "init_done"
    /\ UNCHANGED <<callbacks, cb_i, config_num_epochs, attrs, train_dataloader,
                   loader_has_len, Accelerator, trace>>
    /\ UnchangedFit /\ UnchangedBatch

\* __init__ returns: its frame, with the callbacks argument, is gone.
InitReturn ==
    /\ pc = "init_done"
    /\ callbacks' = <<>>
    /\ cb_i' = 1
    /\ pc' = "constructed"
    /\ UNCHANGED <<config_num_epochs, attrs, num_epochs, train_dataloader,
                   loader_has_len, Accelerator, trace>>
    /\ UnchangedFit /\ UnchangedBatch

\* ------------------------------------------------ trainer.fit()
\* The caller's fit is bound on the instance: Trainer.fit does not run.
CallUserFit ==
    /\ pc = "constructed"
    /\ attrs["fit"] = "user"
    /\ Record(Ev("fit", "user", -1, -1, None, None))
    /\ pc' = "done"
    /\ UnchangedInit /\ UnchangedFit /\ UnchangedBatch

\* line 120: Trainer.fit is entered.
CallFit ==
    /\ pc = "constructed"
    /\ attrs["fit"] = "default"
    /\ pc' = "fit_for"
    /\ UNCHANGED trace
    /\ UnchangedInit /\ UnchangedFit /\ UnchangedBatch

\* line 123: for epoch in range(self.num_epochs), the next epoch.
FitForNext ==
    /\ pc = "fit_for"
    /\ epoch + 1 < num_epochs
    /\ epoch' = epoch + 1
    /\ pc' = "fit_epoch"
    /\ UNCHANGED <<valid_stats, state, trace>>
    /\ UnchangedInit /\ UnchangedBatch

\* line 123, 141: the range is exhausted and fit returns.
FitForEnd ==
    /\ pc = "fit_for"
    /\ ~(epoch + 1 < num_epochs)
    /\ pc' = "done"
    /\ UNCHANGED trace
    /\ UnchangedInit /\ UnchangedFit /\ UnchangedBatch

\* line 126, 94-97: fit_epoch(epoch) is called: model.train(), a new meter.
FitEpochEnter ==
    /\ pc = "fit_epoch"
    /\ Record(Ev("fit_epoch", attrs["fit_epoch"], epoch, -1, epoch, None))
    /\ losses' = AverageMeter
    /\ epoch_hist' = <<>>
    /\ sample_id' = -1
    /\ pc' = "train_for"
    /\ UNCHANGED <<source, img, loss>>
    /\ UnchangedInit /\ UnchangedFit

\* line 98-99: the next batch of the training dataloader.
TrainForNext ==
    /\ pc = "train_for"
    /\ sample_id + 1 < Len(train_dataloader)
    /\ sample_id' = sample_id + 1
    /\ source' = Tensor(sample_id + 1, train_dataloader[sample_id + 2])
    /\ pc' = "zero_grad"
    /\ UNCHANGED <<img, loss, losses, epoch_hist, trace>>
    /\ UnchangedInit /\ UnchangedFit

\* line 98: the dataloader is exhausted and fit_epoch returns; its frame is gone.
TrainForEnd ==
    /\ pc = "train_for"
    /\ ~(sample_id + 1 < Len(train_dataloader))
    /\ sample_id' = -1
    /\ source' = None
    /\ img' = None
    /\ loss' = 0
    /\ losses' = None
    /\ epoch_hist' = <<>>
    /\ pc' = "evaluate"
    /\ UNCHANGED trace
    /\ UnchangedInit /\ UnchangedFit

\* line 100
ZeroGrad ==
    /\ pc = "zero_grad"
    /\ Record(Ev("zero_grad", "extern", epoch, sample_id, None, None))
    /\ pc' = "preprocess"
    /\ UnchangedInit /\ UnchangedFit /\ UnchangedBatch

\* Line 103 calling the class's method: Trainer.preprocess(self, source).
Preprocess_ClassMethod ==
    /\ pc = "preprocess"
    /\ img' = preprocess(source)
    /\ Record(Ev("preprocess", "default", epoch, sample_id, source, img'))
    /\ pc' = "augmentations"
    /\ UNCHANGED <<sample_id, source, loss, losses, epoch_hist>>
    /\ UnchangedInit /\ UnchangedFit

\* line 103
Preprocess ==
    /\ pc = "preprocess"
    /\ img' = IF attrs["preprocess"] = "user" THEN user_preprocess(source)
                                             ELSE preprocess(source)
    /\ Record(Ev("preprocess", attrs["preprocess"], epoch, sample_id, source, img'))
    /\ pc' = "augmentations"
    /\ UNCHANGED <<sample_id, source, loss, losses, epoch_hist>>
    /\ UnchangedInit /\ UnchangedFit

\* Line 104 applied to the batch source instead of preprocess's output.
Augmentations_FromSource ==
    /\ pc = "augmentations"
    /\ img' = IF attrs["augmentations"] = "user" THEN user_augmentations(source)
                                                ELSE augmentations(source)
    /\ Record(Ev("augmentations", attrs["augmentations"], epoch, sample_id, source, img'))
    /\ pc' = "forward"
    /\ UNCHANGED <<sample_id, source, loss, losses, epoch_hist>>
    /\ UnchangedInit /\ UnchangedFit

\* line 104
Augmentations ==
    /\ pc = "augmentations"
    /\ img' = IF attrs["augmentations"] = "user" THEN user_augmentations(img)
                                                ELSE augmentations(img)
    /\ Record(Ev("augmentations", attrs["augmentations"], epoch, sample_id, img, img'))
    /\ pc' = "forward"
    /\ UNCHANGED <<sample_id, source, loss, losses, epoch_hist>>
    /\ UnchangedInit /\ UnchangedFit

\* line 106
Forward ==
    /\ pc = "forward"
    /\ Record(Ev("forward", "extern", epoch, sample_id, img, None))
    /\ pc' = "criterion"
    /\ UnchangedInit /\ UnchangedFit /\ UnchangedBatch

\* line 107: the criterion yields this batch's loss.
Criterion ==
    /\ pc = "criterion"
    /\ \E l \in Losses :
          /\ loss' = l
          /\ epoch_hist' = Append(epoch_hist, <<l, img.n>>)
    /\ Record(Ev("criterion", "extern", epoch, sample_id, None, None))
    /\ pc' = "backward"
    /\ UNCHANGED <<sample_id, source, img, losses>>
    /\ UnchangedInit /\ UnchangedFit

\* line 108, 91-92
Backward ==
    /\ pc = "backward"
    /\ Record(Ev("backward", attrs["backward"], epoch, sample_id, None, None))
    /\ pc' = "optimizer_step"
    /\ UnchangedInit /\ UnchangedFit /\ UnchangedBatch

\* line 109
OptimizerStep ==
    /\ pc = "optimizer_step"
    /\ Record(Ev("optimizer.step", "extern", epoch, sample_id, None, None))
    /\ pc' = "losses_update"
    /\ UnchangedInit /\ UnchangedFit /\ UnchangedBatch

\* Line 111 weighted by the batch source's size: source.shape[0].
LossesUpdate_SourceWeight ==
    /\ pc = "losses_update"
    /\ losses' = AverageMeterUpdate(losses, loss, source.n)
    /\ Record(Ev("losses.update", "extern", epoch, sample_id, None, None))
    /\ pc' = "log"
    /\ UNCHANGED <<sample_id, source, img, loss, epoch_hist>>
    /\ UnchangedInit /\ UnchangedFit

\* line 111
LossesUpdate ==
    /\ pc = "losses_update"
    /\ losses' = AverageMeterUpdate(losses, loss, img.n)
    /\ Record(Ev("losses.update", "extern", epoch, sample_id, None, None))
    /\ pc' = "log"
    /\ UNCHANGED <<sample_id, source, img, loss, epoch_hist>>
    /\ UnchangedInit /\ UnchangedFit

\* line 113: this batch is not logged.
LogSkip ==
    /\ pc = "log"
    /\ sample_id % LogEvery # 0
    /\ pc' = "train_for"
    /\ UNCHANGED trace
    /\ UnchangedInit /\ UnchangedFit /\ UnchangedBatch

\* line 113-118: the message is built, len(self.train_dataloader) included.
LogInfo ==
    /\ pc = "log"
    /\ sample_id % LogEvery = 0
    /\ loader_has_len
    /\ pc' = "train_for"
    /\ UNCHANGED trace
    /\ UnchangedInit /\ UnchangedFit /\ UnchangedBatch

\* line 116: the dataloader has no length; TypeError leaves fit_epoch and fit.
LogRaiseTypeError ==
    /\ pc = "log"
    /\ sample_id % LogEvery = 0
    /\ ~loader_has_len
    /\ sample_id' = -1
    /\ source' = None
    /\ img' = None
    /\ loss' = 0
    /\ losses' = None
    /\ epoch_hist' = <<>>
    /\ pc' = "TypeError"
    /\ UNCHANGED trace
    /\ UnchangedInit /\ UnchangedFit

\* ------------------------------------------------ the rest of the epoch
NumCalls(stage) == Cardinality({i \in 1..Len(trace) : trace[i].stage = stage})

\* line 130
Evaluate ==
    /\ pc = "evaluate"
    /\ valid_stats' = IF attrs["evaluate"] = "user"
                      THEN user_evaluate(NumCalls("evaluate") + 1)
                      ELSE evaluate
    /\ Record(Ev("evaluate", attrs["evaluate"], epoch, -1, None, valid_stats'))
    /\ pc' = "checkpoint"
    /\ UNCHANGED <<epoch, state>>
    /\ UnchangedInit /\ UnchangedBatch

\* Checkpoint with the 1-based epoch number the log line of 115 prints.
Checkpoint_OneBasedEpoch ==
    /\ pc = "checkpoint"
    /\ Record(Ev("checkpoint", attrs["checkpoint"], epoch, -1, <<epoch + 1, valid_stats>>,
                 None))
    /\ pc' = "terminate"
    /\ UnchangedInit /\ UnchangedFit /\ UnchangedBatch

\* line 132
Checkpoint ==
    /\ pc = "checkpoint"
    /\ Record(Ev("checkpoint", attrs["checkpoint"], epoch, -1, <<epoch, valid_stats>>,
                 IF attrs["checkpoint"] = "user" THEN None
                 ELSE checkpoint("model", epoch, valid_stats)))
    /\ pc' = "terminate"
    /\ UnchangedInit /\ UnchangedFit /\ UnchangedBatch

\* line 134
Terminate ==
    /\ pc = "terminate"
    /\ \E r \in UserTerminateReturns :
          state' = IF attrs["terminate"] = "user" THEN r
                   ELSE terminate("model", epoch, valid_stats)
    /\ Record(Ev("terminate", attrs["terminate"], epoch, -1, <<epoch, valid_stats>>,
                 state'))
    /\ pc' = "check_state"
    /\ UNCHANGED <<epoch, valid_stats>>
    /\ UnchangedInit /\ UnchangedBatch

\* The scheduler step of line 139 placed before the test of line 135.
Break_AfterSchedulerStep ==
    /\ pc = "check_state"
    /\ state = TrainerState_TERMINATE
    /\ Record(Ev("scheduler.step", "extern", epoch, -1, None, None))
    /\ pc' = "done"
    /\ UnchangedInit /\ UnchangedFit /\ UnchangedBatch

\* The test of line 135 written as "if state:" (any member is truthy).
Break_OnAnyState ==
    /\ pc = "check_state"
    /\ state # None
    /\ pc' = "done"
    /\ UNCHANGED trace
    /\ UnchangedInit /\ UnchangedFit /\ UnchangedBatch

\* line 135-136: break
Break ==
    /\ pc = "check_state"
    /\ state = TrainerState_TERMINATE
    /\ pc' = "done"
    /\ UNCHANGED trace
    /\ UnchangedInit /\ UnchangedFit /\ UnchangedBatch

\* line 135: no break
NoBreak ==
    /\ pc = "check_state"
    /\ state # TrainerState_TERMINATE
    /\ pc' = "scheduler_step"
    /\ UNCHANGED trace
    /\ UnchangedInit /\ UnchangedFit /\ UnchangedBatch

\* line 139
SchedulerStep ==
    /\ pc = "scheduler_step"
    /\ Record(Ev("scheduler.step", "extern", epoch, -1, None, None))
    /\ pc' = "fit_for"
    /\ UnchangedInit /\ UnchangedFit /\ UnchangedBatch

Next ==
    \/ RaiseModuleNotFound
    \/ InitSetup
    \/ RaiseNotSupported
    \/ SetAttr
    \/ InitHyperParams
    \/ InitReturn
    \/ CallUserFit
    \/ CallFit
    \/ FitForNext
    \/ FitForEnd
    \/ FitEpochEnter
    \/ TrainForNext
    \/ TrainForEnd
    \/ ZeroGrad
    \/ Preprocess
    \/ Augmentations
    \/ Forward
    \/ Criterion
    \/ Backward
    \/ OptimizerStep
    \/ LossesUpdate
    \/ LogSkip
    \/ LogInfo
    \/ LogRaiseTypeError
    \/ Evaluate
    \/ Checkpoint
    \/ Terminate
    \/ Break
    \/ NoBreak
    \/ SchedulerStep

Spec == Init /\ [][Next]_vars

FairSpec == Spec /\ WF_vars(Next)

\* ================================================================ claims
EpochStageNames == <<"fit_epoch", "evaluate", "checkpoint", "terminate", "scheduler.step">>

BatchStageNames == <<"zero_grad", "preprocess", "augmentations", "forward", "criterion",
                     "backward", "optimizer.step">>

Range(q) == {q[i] : i \in 1..Len(q)}

IsEpochStage(e) == e.stage \in Range(EpochStageNames)

IsBatchStage(e) == e.stage \in Range(BatchStageNames)

Idx == 1..Len(trace)

\* Trainer.fit (not a caller's fit) is or was running.
InTrainerFit == pc \notin {"init", "ModuleNotFoundError", "init_callbacks", "init_done",
                            "ValueError", "constructed"}
                /\ attrs["fit"] = "default"

Returned == InTrainerFit /\ pc = "done"

\* Trainer.fit is over: it returned, or the TypeError of line 116 left it.
Ended == InTrainerFit /\ pc \in {"done", "TypeError"}

TerminateReturned(v) ==
    \E i \in Idx : trace[i].stage = "terminate" /\ trace[i].ret = v

\* C1: the epoch-level stages of every epoch run in the order fit_epoch, evaluate,
\* checkpoint, terminate, scheduler step, epoch after epoch; every call of epoch
\* e+1 comes after the terminate call of epoch e; and checkpoint and terminate of
\* epoch e receive e and the value evaluate returned in epoch e.
C1_EpochStageOrder ==
    LET P == SelectSeq(trace, IsEpochStage)
    IN /\ \A k \in 1..Len(P) :
             /\ P[k].stage = EpochStageNames[((k - 1) % 5) + 1]
             /\ P[k].epoch = (k - 1) \div 5
       /\ \A j \in Idx :
             trace[j].epoch >= 1 =>
                \E i \in 1..(j - 1) : /\ trace[i].stage = "terminate"
                                      /\ trace[i].epoch = trace[j].epoch - 1
       /\ \A j \in Idx :
             trace[j].stage \in {"checkpoint", "terminate"} =>
                \E i \in 1..(j - 1) :
                   /\ trace[i].stage = "evaluate"
                   /\ trace[i].epoch = trace[j].epoch
                   /\ \A m \in (i + 1)..(j - 1) : trace[m].stage # "evaluate"
                   /\ trace[j].arg = <<trace[j].epoch, trace[i].ret>>

\* Two epochs ran, the second to its terminate call, with a caller's evaluate.
C1_Witness ==
    /\ InTrainerFit
    /\ \E j \in Idx : /\ trace[j].stage = "terminate"
                      /\ trace[j].epoch = 1
                      /\ trace[j].arg = <<1, user_evaluate(2)>>

\* C2: when no terminate call returned TERMINATE, a Trainer.fit that is over has
\* run exactly config.num_epochs epochs, 0 .. num_epochs-1 in order, each one
\* fit_epoch followed by one evaluate; with num_epochs = 0 nothing was called.
\* (Violated: the TypeError of line 116 ends fit inside the first epoch.)
C2_RunsNumEpochs ==
    (Ended /\ ~TerminateReturned(TrainerState_TERMINATE)) =>
       LET P == SelectSeq(trace, LAMBDA e : e.stage \in {"fit_epoch", "evaluate"})
       IN /\ Len(P) = 2 * config_num_epochs
          /\ \A e \in 0..(config_num_epochs - 1) :
                /\ P[2 * e + 1].stage = "fit_epoch"
                /\ P[2 * e + 1].epoch = e
                /\ P[2 * e + 1].arg = e
                /\ P[2 * e + 2].stage = "evaluate"
                /\ P[2 * e + 2].epoch = e
          /\ (config_num_epochs = 0 => trace = <<>>)

\* C3: a terminate call that returned TERMINATE is the last call of fit (no
\* scheduler step, no later epoch); after a terminate call that returned anything
\* else the scheduler is stepped and, unless that was the last epoch, the next
\* epoch's fit_epoch follows.
C3_TerminateDecides ==
    \A i \in Idx :
       trace[i].stage = "terminate" =>
          IF trace[i].ret = TrainerState_TERMINATE
          THEN /\ i = Len(trace)
               /\ pc \in {"check_state", "done"}
          ELSE /\ i = Len(trace) => pc \in {"check_state", "scheduler_step"}
               /\ i < Len(trace) =>
                     /\ trace[i + 1].stage = "scheduler.step"
                     /\ trace[i + 1].epoch = trace[i].epoch
               /\ i + 1 = Len(trace) =>
                     \/ pc = "fit_for"
                     \/ pc = "fit_epoch" /\ epoch = trace[i].epoch + 1
                     \/ pc = "done" /\ trace[i].epoch = num_epochs - 1
               /\ i + 1 < Len(trace) =>
                     /\ trace[i + 2].stage = "fit_epoch"
                     /\ trace[i + 2].epoch = trace[i].epoch + 1

\* Both cases in one run: epoch 0 continued on a member that is not TERMINATE,
\* epoch 1 stopped fit before the last epoch.
C3_Witness ==
    /\ Returned
    /\ num_epochs > 1
    /\ \E i, j \in Idx : /\ trace[i].stage = "terminate"
                         /\ trace[i].ret = TrainerState_TRAINING
                         /\ trace[j].stage = "terminate"
                         /\ trace[j].ret = TrainerState_TERMINATE
                         /\ j = Len(trace)

\* Construction is under way: no key outside the whitelist was reached yet.
C4_UnderWay(bad) ==
    \/ pc = "init"
    \/ /\ pc = "init_callbacks"
       /\ \A k \in bad : cb_i <= k

\* C4 as claimed: a callbacks dictionary with a key outside the whitelist makes
\* __init__ raise ValueError.  (Violated: without the accelerate library
\* __init__ raises ModuleNotFoundError at line 63, before it reads callbacks.)
C4_RaisesValueError ==
    LET bad == {k \in 1..Len(callbacks) : callbacks[k] \notin callbacks_whitelist}
    IN bad # {} =>
          \/ C4_UnderWay(bad)
          \/ /\ pc = "ValueError"
             /\ cb_i \in bad

\* C4, amended: a callbacks dictionary with a key outside the whitelist makes
\* __init__ raise: ValueError at that key when the accelerate library is
\* installed, ModuleNotFoundError otherwise; it never completes and nothing of
\* the loop ever runs; a constructed Trainer was given whitelisted keys only and
\* none of its other attributes was replaced.
C4_WhitelistOnly ==
    LET bad == {k \in 1..Len(callbacks) : callbacks[k] \notin callbacks_whitelist}
    IN /\ bad # {} =>
             \/ C4_UnderWay(bad)
             \/ /\ pc = "ValueError"
                /\ Accelerator # "None"
                /\ cb_i \in bad
             \/ /\ pc = "ModuleNotFoundError"
                /\ Accelerator = "None"
       /\ pc = "ValueError" => bad # {} /\ trace = <<>>
       /\ pc = "ModuleNotFoundError" =>
             /\ trace = <<>>
             /\ \A a \in AttributeNames : attrs[a] = "default"
       /\ pc = "init_done" => Range(callbacks) \subseteq callbacks_whitelist
       /\ pc \notin {"init_callbacks", "ValueError"} =>
             \A a \in OtherAttributes : attrs[a] = "default"

\* A whitelisted key was bound, then the second key was rejected.
C4_Witness ==
    /\ pc = "ValueError"
    /\ Len(callbacks) = 2
    /\ cb_i = 2
    /\ attrs[callbacks[1]] = "user"
    /\ callbacks[2] \in OtherAttributes

\* Position k of the call sequence of Trainer.fit over nb batches per epoch.
CanonStage(k, nb) ==
    LET r == (k - 1) % (8 * nb + 5)
    IN IF r = 0 THEN "fit_epoch"
       ELSE IF r <= 8 * nb
            THEN (BatchStageNames \o <<"losses.update">>)[((r - 1) % 8) + 1]
            ELSE EpochStageNames[r - 8 * nb + 1]

\* C5: exactly the stages named in callbacks are bound to the caller's functions;
\* every call of a stage goes to the implementation bound to it (the caller's
\* when supplied, the default otherwise); and whatever is overridden, the calls
\* of Trainer.fit follow one sequence, fixed by num_epochs and the number of
\* batches, cut short only by a terminate that returned TERMINATE.
C5_OverridesDispatch ==
    /\ pc = "init_done" =>
          \A a \in AttributeNames : attrs[a] = "user" <=> a \in Range(callbacks)
    /\ \A k \in Idx :
          LET e == trace[k]
          IN /\ e.stage \in callbacks_whitelist => e.impl = attrs[e.stage]
             /\ e.stage \in {"preprocess", "augmentations"} =>
                   IF attrs[e.stage] = "user"
                   THEN e.ret.ops = Append(e.arg.ops, e.stage)
                   ELSE e.ret = e.arg
             /\ e.stage = "evaluate" =>
                   ((attrs["evaluate"] = "user") <=> (e.ret # None))
    /\ attrs["fit"] = "user" => \A k \in Idx : trace[k].stage = "fit"
    /\ InTrainerFit =>
          LET nb == Len(train_dataloader)
          IN /\ \A k \in Idx : trace[k].stage = CanonStage(k, nb)
             /\ Len(trace) <= num_epochs * (8 * nb + 5)
             /\ Returned =>
                   \/ Len(trace) = num_epochs * (8 * nb + 5)
                   \/ /\ trace # <<>>
                      /\ trace[Len(trace)].stage = "terminate"
                      /\ trace[Len(trace)].ret = TrainerState_TERMINATE

\* A full run with two stages overridden and both called.
C5_Witness ==
    /\ Returned
    /\ attrs["preprocess"] = "user"
    /\ attrs["evaluate"] = "user"
    /\ attrs["augmentations"] = "default"
    /\ num_epochs = MaxEpochs
    /\ Len(trace) = num_epochs * (8 * Len(train_dataloader) + 5)
    /\ \E k \in Idx : trace[k].stage = "preprocess" /\ trace[k].impl = "user"
    /\ \E k \in Idx : trace[k].stage = "augmentations" /\ trace[k].impl = "default"

\* No callbacks were given.
AllDefault == \A a \in AttributeNames : attrs[a] = "default"

\* C6: the default preprocess and augmentations return their input (so with
\* both the model receives the batch source as the dataloader yielded it); the
\* default evaluate, checkpoint and terminate return None; and a Trainer built
\* without callbacks runs all num_epochs epochs, each with one scheduler step.
\* (Violated in its last part: the TypeError of line 116 stops fit early.)
C6_DefaultsAreNoOps ==
    /\ \A k \in Idx :
          LET e == trace[k]
          IN /\ (e.stage \in {"preprocess", "augmentations"} /\ e.impl = "default") =>
                   e.ret = e.arg
             /\ (e.stage \in {"evaluate", "checkpoint", "terminate"}
                   /\ e.impl = "default") => e.ret = None
             /\ (e.stage = "forward" /\ attrs["preprocess"] = "default"
                   /\ attrs["augmentations"] = "default") =>
                   e.arg = Tensor(e.sample_id, train_dataloader[e.sample_id + 1])
    /\ (Ended /\ AllDefault) =>
          /\ NumCalls("fit_epoch") = num_epochs
          /\ NumCalls("scheduler.step") = num_epochs
          /\ \A e \in 0..(num_epochs - 1) :
                Cardinality({k \in Idx : /\ trace[k].stage = "scheduler.step"
                                         /\ trace[k].epoch = e}) = 1

InFitEpoch == pc \in {"train_for", "zero_grad", "preprocess", "augmentations", "forward",
                      "criterion", "backward", "optimizer_step", "losses_update", "log"}

\* The batches of the running epoch whose meter update is due.
BatchesDone == IF pc \in {"train_for", "log"} THEN sample_id + 1 ELSE sample_id

RECURSIVE WeightedSum(_, _)
WeightedSum(h, k) == IF k = 0 THEN 0 ELSE WeightedSum(h, k - 1) + h[k][1] * h[k][2]

RECURSIVE Weight(_, _)
Weight(h, k) == IF k = 0 THEN 0 ELSE Weight(h, k - 1) + h[k][2]

\* C7: inside fit_epoch the meter holds the batches of this epoch only: it is new
\* when the epoch starts, it is updated once per batch, right after that batch's
\* optimizer step, the weight of a batch is shape[0] of what augmentations
\* returned for it, and after k batches val is the k-th loss and avg the
\* weighted mean of the k losses.
C7_MeterPerEpoch ==
    /\ \A i \in Idx :
          trace[i].stage = "losses.update" =>
             /\ i > 1
             /\ trace[i - 1].stage = "optimizer.step"
             /\ trace[i - 1].epoch = trace[i].epoch
             /\ trace[i - 1].sample_id = trace[i].sample_id
    /\ InFitEpoch =>
          LET k == BatchesDone
          IN /\ \A b \in 0..(k - 1) :
                   Cardinality({i \in Idx : /\ trace[i].stage = "losses.update"
                                            /\ trace[i].epoch = epoch
                                            /\ trace[i].sample_id = b}) = 1
             /\ \A i \in Idx :
                   (trace[i].stage = "losses.update" /\ trace[i].epoch = epoch) =>
                      trace[i].sample_id < k
             /\ \A j \in 1..Len(epoch_hist) :
                   \E i \in Idx : /\ trace[i].stage = "augmentations"
                                  /\ trace[i].epoch = epoch
                                  /\ trace[i].sample_id = j - 1
                                  /\ trace[i].ret.n = epoch_hist[j][2]
             /\ k = 0 => losses = AverageMeter
             /\ losses.count = Weight(epoch_hist, k)
             /\ losses.sum = WeightedSum(epoch_hist, k)
             /\ k > 0 =>
                   /\ losses.val = epoch_hist[k][1]
                   /\ losses.avg[1] * Weight(epoch_hist, k)
                         = losses.avg[2] * WeightedSum(epoch_hist, k)

\* The second epoch, two batches done, of different size and loss, with an
\* augmentations stage that changes the batch size.
C7_Witness ==
    /\ pc = "train_for"
    /\ epoch = 1
    /\ sample_id = 1
    /\ attrs["augmentations"] = "user"
    /\ epoch_hist[1][1] # epoch_hist[2][1]
    /\ epoch_hist[1][2] # epoch_hist[2][2]
    /\ losses.avg = <<8, 5>>

\* C8: in every epoch the batch-level calls are zero_grad, preprocess,
\* augmentations, forward, criterion, backward, optimizer step, batch after
\* batch in dataloader order; preprocess receives the batch source,
\* augmentations what preprocess returned, the model what augmentations
\* returned; evaluate of an epoch comes after the optimizer step of every batch
\* of the dataloader; over an empty dataloader no step is made and evaluate,
\* checkpoint and terminate still run.
C8_BatchStageOrder ==
    /\ \A e \in 0..(num_epochs - 1) :
          LET B == SelectSeq(trace, LAMBDA x : IsBatchStage(x) /\ x.epoch = e)
          IN \A k \in 1..Len(B) :
                /\ B[k].stage = BatchStageNames[((k - 1) % 7) + 1]
                /\ B[k].sample_id = (k - 1) \div 7
                /\ B[k].sample_id < Len(train_dataloader)
                /\ B[k].stage = "preprocess" =>
                      B[k].arg = Tensor(B[k].sample_id,
                                        train_dataloader[B[k].sample_id + 1])
                /\ B[k].stage \in {"augmentations", "forward"} =>
                      B[k].arg = B[k - 1].ret
    /\ \A j \in Idx :
          trace[j].stage = "evaluate" =>
             /\ \A b \in 0..(Len(train_dataloader) - 1) :
                   Cardinality({i \in 1..(j - 1) : /\ trace[i].stage = "optimizer.step"
                                                   /\ trace[i].epoch = trace[j].epoch
                                                   /\ trace[i].sample_id = b}) = 1
             /\ \A i \in Idx :
                   (IsBatchStage(trace[i]) /\ trace[i].epoch = trace[j].epoch) => i < j
    /\ train_dataloader = <<>> =>
          /\ NumCalls("optimizer.step") = 0
          /\ (Returned /\ num_epochs > 0) =>
                /\ NumCalls("evaluate") > 0
                /\ NumCalls("checkpoint") > 0
                /\ NumCalls("terminate") > 0

\* An epoch of two batches ran to its evaluate, with both batch stages overridden.
C8_Witness ==
    /\ Len(train_dataloader) = 2
    /\ attrs["preprocess"] = "user"
    /\ attrs["augmentations"] = "user"
    /\ pc = "checkpoint"
    /\ \E i \in Idx : /\ trace[i].stage = "forward"
                      /\ trace[i].sample_id = 1
                      /\ trace[i].arg.ops = <<"preprocess", "augmentations">>

\* C9: scheduler steps <= terminate calls <= checkpoint calls <= evaluate calls
\* <= fit_epoch calls <= num_epochs, neighbours among the five counts at most one
\* apart; when fit has returned the four stage counts are one number E and the
\* scheduler was stepped E times, or E - 1 times if a terminate returned TERMINATE.
C9_CallCounts ==
    LET f == NumCalls("fit_epoch")
        v == NumCalls("evaluate")
        c == NumCalls("checkpoint")
        t == NumCalls("terminate")
        s == NumCalls("scheduler.step")
    IN /\ s <= t /\ t <= c /\ c <= v /\ v <= f /\ f <= num_epochs
       /\ t - s <= 1 /\ c - t <= 1 /\ v - c <= 1 /\ f - v <= 1
       /\ Returned =>
             /\ v = f /\ c = f /\ t = f
             /\ s = IF TerminateReturned(TrainerState_TERMINATE) THEN f - 1 ELSE f

\* fit returned in its second epoch on TERMINATE, after a checkpoint in that epoch.
C9_Witness ==
    /\ Returned
    /\ TerminateReturned(TrainerState_TERMINATE)
    /\ NumCalls("checkpoint") = 2
    /\ NumCalls("scheduler.step") = 1

\* C10: once called, fit returns; it never starts more than num_epochs epochs;
\* the epochs it starts are pairwise different and the epoch counter never
\* decreases.  (Violated in its first part: over a dataloader without a length
\* fit is left by the TypeError of line 116 and never returns.)
C10_FitTerminates ==
    /\ (pc = "constructed") ~> (pc = "done")
    /\ [](/\ NumCalls("fit_epoch") <= num_epochs
          /\ \A i, j \in Idx :
                (trace[i].stage = "fit_epoch" /\ trace[j].stage = "fit_epoch" /\ i < j)
                   => trace[i].epoch < trace[j].epoch)
    /\ [][epoch' >= epoch]_vars

====
